---- MODULE Spec2Model ----
(***************************************************************************)
(* Model of dashboard.py: the cached loader (get_latest_file,              *)
(* load_and_process_data), the per-row attribution (get_adhoc_owner,       *)
(* get_cancel_owner, vehicle_match), the sidebar filter, the KPI           *)
(* scorecards, the hub summary table and the vendor ranking.               *)
(*                                                                         *)
(* Text cells that the code searches with `in` are tuples of one-character *)
(* strings; cells that the code only compares for equality are strings.    *)
(* A float is a record [nan, num, den] standing for num/den, or for NaN.   *)
(***************************************************************************)
EXTENDS Integers, Sequences, FiniteSets, TLC

VARIABLES
    folder,         \* the CSV files in FOLDER_PATH: set of [ctime, content]
    clock,          \* file-system clock that stamps a file's creation time
    cache,          \* st.cache_data entry of load_and_process_data(FOLDER_PATH)
    pc,             \* position of the script run
    df_raw,         \* line 49
    selected_date,  \* line 60
    selected_hubs,  \* line 64
    df,             \* line 67
    kpi,            \* lines 79-83: the five scorecards as displayed
    summary_table,  \* lines 90-98
    shown_table,    \* line 100: the table as displayed
    vendor_stats,   \* lines 142-146
    fig_vendor      \* line 148: the rows of the bar chart

vars == <<folder, clock, cache, pc, df_raw, selected_date, selected_hubs, df,
          kpi, summary_table, shown_table, vendor_stats, fig_vendor>>

-----------------------------------------------------------------------------
(* Bounds of the model *)

MaxBatch == 2

MaxFiles == 3

-----------------------------------------------------------------------------
(* Cell values *)

\* A missing cell of a column compared by equality (pandas NaN).
Na == "<NaN>"

\* A missing cell of a text column.
NaText == <<"<NaN>">>

\* str(x) of an equality cell: str(float('nan')) is 'nan'.
Str(x) == IF x = Na THEN "nan" ELSE x

\* str(x) of a text cell.
StrText(x) == IF x = NaText THEN <<"n", "a", "n">> ELSE x

\* row.get(key, default): the default only when the row has no such column.
Get(row, key, default) == IF key \in DOMAIN row THEN row[key] ELSE default

\* Python's `sub in s` on strings: s has sub as a contiguous substring.
Contains(sub, s) ==
    \E i \in 0..(Len(s) - Len(sub)) : SubSeq(s, i + 1, i + Len(sub)) = sub

VENDOR == <<"V", "E", "N", "D", "O", "R">>

\* Lexicographic order of the strings the code sorts (hub and vendor names).
Collation == <<"HubA", "HubB", "VendorX", "VendorY">>

Rank(name) == CHOOSE i \in 1..Len(Collation) : Collation[i] = name

RECURSIVE Sorted(_)
\* sorted(S) / the key order of groupby(sort=True): ascending.
Sorted(S) ==
    IF S = {} THEN <<>>
    ELSE LET m == CHOOSE x \in S : \A y \in S : Rank(x) <= Rank(y)
         IN  <<m>> \o Sorted(S \ {m})

\* The values a column takes in a frame.
Unique(rows, col) == {rows[i][col] : i \in 1..Len(rows)}

-----------------------------------------------------------------------------
(* Floats and their display *)

NaN == [nan |-> TRUE, num |-> 0, den |-> 1]

Float(n, d) == [nan |-> FALSE, num |-> n, den |-> d]

\* numpy integer division n/d with n <= d: 0/0 is nan (a warning, no exception).
NpDiv(n, d) == IF d = 0 THEN NaN ELSE Float(n, d)

\* Series.mean(): nan for an empty series.
Mean(rows, col) ==
    NpDiv(Len(SelectSeq(rows, LAMBDA r : r[col] = 1)), Len(rows))

\* Round 1000*num/den to the nearest integer, ties to even.
Tenths(x) ==
    LET q == (1000 * x.num) \div x.den
        r == (1000 * x.num) % x.den
    IN  IF 2 * r > x.den THEN q + 1
        ELSE IF 2 * r = x.den THEN q + (q % 2)
        ELSE q

\* f"{(x*100):.1f}%"
FormatPct(x) ==
    IF x.nan THEN "nan%"
    ELSE ToString(Tenths(x) \div 10) \o "." \o ToString(Tenths(x) % 10) \o "%"

-----------------------------------------------------------------------------
(* load_and_process_data: per-row attribution *)

\* pd.to_datetime(...).dt.date on the trip_date texts of the reports.
to_date(text) ==
    CASE text = "2024-01-05" -> <<2024, 1, 5>>
      [] text = "2024-01-06" -> <<2024, 1, 6>>

\* get_adhoc_owner without its first line: the reason decides for every row.
get_adhoc_owner_unguarded(row) ==
    LET reason == StrText(Get(row, "adhoc_trip_creation_reason", <<>>))
    IN  IF Contains(VENDOR, reason) THEN "Vendor Issue" ELSE "Zepto Issue"

get_adhoc_owner(row) ==
    IF row.actual_billing_basis # "Adhoc" THEN "N/A"
    ELSE LET reason == StrText(Get(row, "adhoc_trip_creation_reason", <<>>))
         IN  IF Contains(VENDOR, reason) THEN "Vendor Issue" ELSE "Zepto Issue"

vendor_cancel_codes ==
    {"PLANNED_VEHICLE_NOT_PROVIDED_BY_VENDOR", "VEHICLE_UNAVAILABILITY",
     "PLANNED_VEHICLE_BREAKDOWN", "TRANSPORT_VENDOR_ISSUE"}

\* get_cancel_owner without its first line: the code decides for every row.
get_cancel_owner_unguarded(row) ==
    LET code == Str(Get(row, "cancellation_reason_code", ""))
    IN  IF code \in vendor_cancel_codes THEN "Vendor Issue" ELSE "Zepto Issue"

get_cancel_owner(row) ==
    IF row.trip_status # "CANCELLED" THEN "N/A"
    ELSE LET code == Str(Get(row, "cancellation_reason_code", ""))
         IN  IF code \in vendor_cancel_codes THEN "Vendor Issue" ELSE "Zepto Issue"

\* (planned == actual).astype(int): a missing cell equals nothing, itself included.
vehicle_match(row) ==
    IF /\ row.planned_vehicle_type # Na
       /\ row.actual_vehicle_type # Na
       /\ row.planned_vehicle_type = row.actual_vehicle_type
    THEN 1 ELSE 0

\* Lines 21-47 on the parsed rows of the CSV.
Process(rows) ==
    [i \in 1..Len(rows) |->
        LET row == [rows[i] EXCEPT !.trip_date = to_date(@)]
        IN  row @@ [vehicle_match |-> vehicle_match(row),
                    adhoc_owner   |-> get_adhoc_owner(row),
                    cancel_owner  |-> get_cancel_owner(row)]]

-----------------------------------------------------------------------------
(* load_and_process_data: the latest file and the cache *)

\* What load_and_process_data returns: None, or a frame of rows.
None == [isnone |-> TRUE, rows |-> <<>>]

Frame(rows) == [isnone |-> FALSE, rows |-> rows]

\* max(files, key=os.path.getctime); called on a non-empty folder only.
get_latest_file(files) ==
    CHOOSE f \in files : \A g \in files : g.ctime <= f.ctime

\* The body of load_and_process_data, run on a cache miss.
load_body(files) ==
    IF files = {} THEN None
    ELSE Frame(Process(get_latest_file(files).content))

ColdCache == [hit |-> FALSE, value |-> None]

\* @st.cache_data keyed by the path argument, which is always FOLDER_PATH.
load_and_process_data(files, entry) ==
    IF entry.hit THEN entry.value ELSE load_body(files)

-----------------------------------------------------------------------------
(* Sidebar filter, lines 59-67 *)

\* st.selectbox returns None when it has no options.
NoDate == <<>>

\* df_raw[(trip_date == selected_date) & source_mh_name.isin(selected_hubs)]
Filter(rows, date, hubs) ==
    SelectSeq(rows, LAMBDA r : r.trip_date = date /\ r.source_mh_name \in hubs)

-----------------------------------------------------------------------------
(* KPI scorecards, lines 73-83 *)

IsPlanned(r) == r.actual_billing_basis = "Planned"

IsAdhoc(r) == r.actual_billing_basis = "Adhoc"

IsCompleted(r) == r.trip_status = "COMPLETED"

IsCancelled(r) == r.trip_status = "CANCELLED"

\* (n/d*100 if d > 0 else 0), displayed
GuardedPct(n, d) == FormatPct(IF d > 0 THEN Float(n, d) ELSE Float(0, 1))

Scorecard(rows) ==
    LET total        == Len(rows)
        planned      == Len(SelectSeq(rows, IsPlanned))
        exec_planned == Len(SelectSeq(rows, LAMBDA r : IsPlanned(r) /\ IsCompleted(r)))
        adhocs       == Len(SelectSeq(rows, IsAdhoc))
        cancels      == Len(SelectSeq(rows, IsCancelled))
    IN  [Total_Trips        |-> total,
         Plan_Execution     |-> GuardedPct(exec_planned, planned),
         Adhoc_Rate         |-> GuardedPct(adhocs, total),
         Cancel_Rate        |-> GuardedPct(cancels, total),
         Vehicle_Compliance |-> FormatPct(Mean(rows, "vehicle_match"))]

NoKpi ==
    [Total_Trips |-> 0, Plan_Execution |-> "", Adhoc_Rate |-> "",
     Cancel_Rate |-> "", Vehicle_Compliance |-> ""]

-----------------------------------------------------------------------------
(* Grouping and sorting *)

\* The rows of one group of df.groupby(col), in frame order.
Group(rows, col, key) == SelectSeq(rows, LAMBDA r : r[col] = key)

\* The group keys of df.groupby(col): sorted ascending.
GroupKeys(rows, col) == Sorted(Unique(rows, col))

Perms(n) == {p \in [1..n -> 1..n] : \A i, j \in 1..n : p[i] = p[j] => i = j}

\* DataFrame.sort_values(col, ascending=False) with the default kind
\* 'quicksort', which is not stable: rows come out in non-increasing order of
\* col, and rows with equal col in any order.
sort_values(table, col) ==
    {[i \in 1..Len(table) |-> table[p[i]]] :
        p \in {q \in Perms(Len(table)) :
                 \A i, j \in 1..Len(table) :
                    i < j => table[q[i]][col] >= table[q[j]][col]}}

TopN == 10

\* DataFrame.head(n)
head(table, n) == SubSeq(table, 1, IF Len(table) < n THEN Len(table) ELSE n)

-----------------------------------------------------------------------------
(* Hub summary table, lines 90-98 *)

\* HubCounts with Total taken as 'nunique' of master_trip_code, not 'count'.
HubCounts_nunique(g) ==
    [Total         |-> Cardinality(Unique(g, "master_trip_code") \ {Na}),
     planned_done  |-> Len(SelectSeq(g, LAMBDA r : IsPlanned(r) /\ IsCompleted(r))),
     planned       |-> Len(SelectSeq(g, IsPlanned)),
     Adhoc_Zepto   |-> Len(SelectSeq(g, LAMBDA r : r.adhoc_owner = "Zepto Issue")),
     Adhoc_Vendor  |-> Len(SelectSeq(g, LAMBDA r : r.adhoc_owner = "Vendor Issue")),
     Cancel_Zepto  |-> Len(SelectSeq(g, LAMBDA r : r.cancel_owner = "Zepto Issue")),
     Cancel_Vendor |-> Len(SelectSeq(g, LAMBDA r : r.cancel_owner = "Vendor Issue")),
     matched       |-> Len(SelectSeq(g, LAMBDA r : r.vehicle_match = 1)),
     size          |-> Len(g)]

\* The counts the aggregation lambdas take over one hub's rows.
HubCounts(g) ==
    [Total         |-> Len(SelectSeq(g, LAMBDA r : r.master_trip_code # Na)),
     planned_done  |-> Len(SelectSeq(g, LAMBDA r : IsPlanned(r) /\ IsCompleted(r))),
     planned       |-> Len(SelectSeq(g, IsPlanned)),
     Adhoc_Zepto   |-> Len(SelectSeq(g, LAMBDA r : r.adhoc_owner = "Zepto Issue")),
     Adhoc_Vendor  |-> Len(SelectSeq(g, LAMBDA r : r.adhoc_owner = "Vendor Issue")),
     Cancel_Zepto  |-> Len(SelectSeq(g, LAMBDA r : r.cancel_owner = "Zepto Issue")),
     Cancel_Vendor |-> Len(SelectSeq(g, LAMBDA r : r.cancel_owner = "Vendor Issue")),
     matched       |-> Len(SelectSeq(g, LAMBDA r : r.vehicle_match = 1)),
     size          |-> Len(g)]

\* One row of summary_table from a hub's counts.
HubRow(hub, c) ==
    [source_mh_name     |-> hub,
     Total              |-> c.Total,
     Plan_Success_Rate  |-> FormatPct(NpDiv(c.planned_done, c.planned)),
     Adhoc_Zepto        |-> c.Adhoc_Zepto,
     Adhoc_Vendor       |-> c.Adhoc_Vendor,
     Cancel_Zepto       |-> c.Cancel_Zepto,
     Cancel_Vendor      |-> c.Cancel_Vendor,
     Vehicle_Compliance |-> FormatPct(NpDiv(c.matched, c.size))]

SummaryTable(rows) ==
    LET keys == GroupKeys(rows, "source_mh_name")
    IN  [i \in 1..Len(keys) |->
            HubRow(keys[i], HubCounts(Group(rows, "source_mh_name", keys[i])))]

-----------------------------------------------------------------------------
(* Vendor performance, lines 142-148 *)

\* VendorCounts with .any() in place of .sum(): 1 when some row matches.
VendorCounts_any(g) ==
    [Adhocs        |-> IF Len(SelectSeq(g, IsAdhoc)) > 0 THEN 1 ELSE 0,
     Cancellations |-> IF Len(SelectSeq(g, IsCancelled)) > 0 THEN 1 ELSE 0]

VendorCounts(g) ==
    [Adhocs        |-> Len(SelectSeq(g, IsAdhoc)),
     Cancellations |-> Len(SelectSeq(g, IsCancelled))]

VendorRow(vendor, c) ==
    [actual_vendor  |-> vendor,
     Adhocs         |-> c.Adhocs,
     Cancellations  |-> c.Cancellations,
     Total_Failures |-> c.Adhocs + c.Cancellations]

VendorStats(rows) ==
    LET keys == GroupKeys(rows, "actual_vendor")
    IN  [i \in 1..Len(keys) |->
            VendorRow(keys[i], VendorCounts(Group(rows, "actual_vendor", keys[i])))]

-----------------------------------------------------------------------------
(* Input reports *)

Hubs == {"HubA", "HubB"}

Vendors == {"VendorX", "VendorY"}

VENDOR_DELAY == <<"V", "E", "N", "D", "O", "R", "_", "D", "E", "L", "A", "Y">>

vendor_delay == <<"v", "e", "n", "d", "o", "r", "_", "d", "e", "l", "a", "y">>

Vendor_delay == <<"V", "e", "n", "d", "o", "r", " ", "d", "e", "l", "a", "y">>

CUSTOMER_REQUEST ==
    <<"C", "U", "S", "T", "O", "M", "E", "R", "_", "R", "E", "Q", "U", "E", "S", "T">>

\* One parsed CSV row.
TripRow(date, hub, vendor, basis, reason, status, code, actual_vehicle) ==
    [trip_date                  |-> date,
     source_mh_name             |-> hub,
     master_trip_code           |-> "MT-1",
     actual_billing_basis       |-> basis,
     adhoc_trip_creation_reason |-> reason,
     trip_status                |-> status,
     cancellation_reason_code   |-> code,
     planned_vehicle_type       |-> "14FT",
     actual_vehicle_type        |-> actual_vehicle,
     actual_vendor              |-> vendor]

\* The kinds of trip of the reports: a plan executed; a plan cancelled for a
\* vendor-fault code; an adhoc trip blamed on the vendor, run with another
\* vehicle; an adhoc trip with no reason given; an adhoc trip cancelled with
\* no code given.
Profiles ==
    {<<"Planned", NaText, "COMPLETED", Na, "14FT">>,
     <<"Planned", NaText, "CANCELLED", "VEHICLE_UNAVAILABILITY", Na>>,
     <<"Adhoc", VENDOR_DELAY, "COMPLETED", Na, "10FT">>,
     <<"Adhoc", NaText, "COMPLETED", Na, "14FT">>,
     <<"Adhoc", CUSTOMER_REQUEST, "CANCELLED", Na, Na>>}

\* The rows a report of the engine runs is made of: every hub, vendor and
\* kind of trip on one day, and one trip of the next day.
Rows ==
    {TripRow("2024-01-05", h, v, p[1], p[2], p[3], p[4], p[5]) :
        h \in Hubs, v \in Vendors, p \in Profiles}
    \cup
    {TripRow("2024-01-06", "HubA", "VendorX", "Planned", NaText, "COMPLETED", Na, "14FT")}

Batches == UNION {[1..n -> Rows] : n \in 0..MaxBatch}

\* A frame without one of its columns.
WithoutColumn(row, col) == [k \in DOMAIN row \ {col} |-> row[k]]

ReasonCells == {NaText, VENDOR_DELAY, vendor_delay, Vendor_delay, CUSTOMER_REQUEST}

CodeCells ==
    {"PLANNED_VEHICLE_NOT_PROVIDED_BY_VENDOR", "VEHICLE_UNAVAILABILITY",
     "PLANNED_VEHICLE_BREAKDOWN", "TRANSPORT_VENDOR_ISSUE", "CUSTOMER_CANCELLED", Na}

\* The rows of the attribution runs: every billing basis, status, reason and
\* code, with and without the two optional columns.
AttrRows ==
    LET full == {TripRow("2024-01-05", "HubA", "VendorX", b, r, s, c, "14FT") :
                    b \in {"Planned", "Adhoc"}, r \in ReasonCells,
                    s \in {"COMPLETED", "CANCELLED", "IN_TRANSIT"}, c \in CodeCells}
    IN  full
        \cup {WithoutColumn(row, "adhoc_trip_creation_reason") : row \in full}
        \cup {WithoutColumn(row, "cancellation_reason_code") : row \in full}

\* The reports that arrive in the folder in the loader runs.
Reports ==
    {<<>>,
     <<TripRow("2024-01-05", "HubA", "VendorX", "Planned", NaText, "COMPLETED", Na, "14FT")>>,
     <<TripRow("2024-01-06", "HubB", "VendorY", "Adhoc", VENDOR_DELAY, "CANCELLED", Na, Na)>>}

-----------------------------------------------------------------------------
(* The script *)

\* Line 49 with lines 51-53: the cached load; the run stops when it is None.
LoadAndProcess ==
    /\ pc = "start"
    /\ LET result == load_and_process_data(folder, cache)
       IN  /\ df_raw' = result
           /\ cache' = [hit |-> TRUE, value |-> result]
           /\ pc' = IF result.isnone THEN "stopped" ELSE "loaded"
    /\ UNCHANGED <<folder, clock, selected_date, selected_hubs, df, kpi,
                   summary_table, shown_table, vendor_stats, fig_vendor>>

\* Lines 59-67: the user picks one of the dates and some of the hubs.
SidebarFilter ==
    /\ pc = "loaded"
    /\ LET available_dates == Unique(df_raw.rows, "trip_date")
           all_hubs        == Unique(df_raw.rows, "source_mh_name")
       IN  \E date \in (IF available_dates = {} THEN {NoDate} ELSE available_dates),
              hubs \in SUBSET all_hubs :
                /\ selected_date' = date
                /\ selected_hubs' = hubs
                /\ df' = Filter(df_raw.rows, date, hubs)
    /\ pc' = "filtered"
    /\ UNCHANGED <<folder, clock, cache, df_raw, kpi, summary_table, shown_table,
                   vendor_stats, fig_vendor>>

\* Lines 73-83.
Scorecards ==
    /\ pc = "filtered"
    /\ kpi' = Scorecard(df)
    /\ pc' = "kpi"
    /\ UNCHANGED <<folder, clock, cache, df_raw, selected_date, selected_hubs, df,
                   summary_table, shown_table, vendor_stats, fig_vendor>>

\* Lines 90-100.
MasterTable ==
    /\ pc = "kpi"
    /\ summary_table' = SummaryTable(df)
    /\ shown_table' \in sort_values(SummaryTable(df), "Total")
    /\ pc' = "table"
    /\ UNCHANGED <<folder, clock, cache, df_raw, selected_date, selected_hubs, df,
                   kpi, vendor_stats, fig_vendor>>

\* Lines 142-152.
VendorPerformance ==
    /\ pc = "table"
    /\ vendor_stats' = VendorStats(df)
    /\ \E sorted \in sort_values(VendorStats(df), "Total_Failures") :
          fig_vendor' = head(sorted, TopN)
    /\ pc' = "done"
    /\ UNCHANGED <<folder, clock, cache, df_raw, selected_date, selected_hubs, df,
                   kpi, summary_table, shown_table>>

\* A new report is dropped in the folder; its creation time is the clock's.
FileArrives ==
    /\ Cardinality(folder) < MaxFiles
    /\ \E content \in Reports :
          folder' = folder \cup {[ctime |-> clock + 1, content |-> content]}
    /\ clock' = clock + 1
    /\ UNCHANGED <<cache, pc, df_raw, selected_date, selected_hubs, df, kpi,
                   summary_table, shown_table, vendor_stats, fig_vendor>>

\* Streamlit runs the script again from the top; the cache outlives the run.
Rerun ==
    /\ pc # "start"
    /\ pc' = "start"
    /\ UNCHANGED <<folder, clock, cache, df_raw, selected_date, selected_hubs, df,
                   kpi, summary_table, shown_table, vendor_stats, fig_vendor>>

Blank ==
    /\ cache = ColdCache
    /\ pc = "start"
    /\ df_raw = None
    /\ selected_date = NoDate
    /\ selected_hubs = {}
    /\ df = <<>>
    /\ kpi = NoKpi
    /\ summary_table = <<>>
    /\ shown_table = <<>>
    /\ vendor_stats = <<>>
    /\ fig_vendor = <<>>

\* One run of the script on a folder that holds one report.
Init ==
    /\ \E content \in Batches : folder = {[ctime |-> 1, content |-> content]}
    /\ clock = 1
    /\ Blank

Next ==
    \/ LoadAndProcess
    \/ SidebarFilter
    \/ Scorecards
    \/ MasterTable
    \/ VendorPerformance

Spec == Init /\ [][Next]_vars

\* One run of the script on a report of one row.
InitAttr ==
    /\ \E row \in AttrRows : folder = {[ctime |-> 1, content |-> <<row>>]}
    /\ clock = 1
    /\ Blank

SpecAttr == InitAttr /\ [][Next]_vars

\* Reports arrive in an empty folder while the script is run again and again.
InitLoader ==
    /\ folder = {}
    /\ clock = 0
    /\ Blank

NextLoader ==
    \/ FileArrives
    \/ LoadAndProcess
    \/ Rerun

SpecLoader == InitLoader /\ [][NextLoader]_vars

-----------------------------------------------------------------------------
(* Properties *)

Loaded == pc \notin {"start", "stopped"}

TableShown == pc \in {"table", "done"}

\* The upper-case form of a text, over the letters of the reports.
UpperChar(c) ==
    CASE c = "v" -> "V" [] c = "e" -> "E" [] c = "n" -> "N" [] c = "d" -> "D"
      [] c = "o" -> "O" [] c = "r" -> "R" [] c = "l" -> "L" [] c = "a" -> "A"
      [] c = "y" -> "Y" [] OTHER -> c

Upper(text) == [i \in 1..Len(text) |-> UpperChar(text[i])]

\* The reason text of a row; empty when the cell or the column is missing.
ReasonText(r) ==
    IF "adhoc_trip_creation_reason" \notin DOMAIN r THEN <<>>
    ELSE IF r.adhoc_trip_creation_reason = NaText THEN <<>>
    ELSE r.adhoc_trip_creation_reason

\* C1: every loaded row has adhoc_owner 'N/A' exactly when its billing basis
\* is not Adhoc; an Adhoc row has 'Vendor Issue' when its reason text,
\* compared case-insensitively, contains VENDOR, and 'Zepto Issue' otherwise,
\* a missing or empty reason included.
C1_AdhocOwnerIgnoresCase ==
    Loaded =>
        \A i \in 1..Len(df_raw.rows) :
            LET r == df_raw.rows[i]
            IN  /\ (r.adhoc_owner = "N/A") <=> (r.actual_billing_basis # "Adhoc")
                /\ r.actual_billing_basis = "Adhoc" =>
                      r.adhoc_owner =
                          IF Contains(VENDOR, Upper(ReasonText(r)))
                          THEN "Vendor Issue" ELSE "Zepto Issue"

\* C2: every loaded row has cancel_owner 'N/A' exactly when its status is not
\* CANCELLED; a CANCELLED row has 'Vendor Issue' exactly when its reason code
\* is one of the four vendor-fault codes, and 'Zepto Issue' for any other
\* code, a missing cell or a missing column included.
C2_CancelOwner ==
    Loaded =>
        \A i \in 1..Len(df_raw.rows) :
            LET r == df_raw.rows[i]
                vendor_fault ==
                    /\ "cancellation_reason_code" \in DOMAIN r
                    /\ \/ r.cancellation_reason_code = "PLANNED_VEHICLE_NOT_PROVIDED_BY_VENDOR"
                       \/ r.cancellation_reason_code = "VEHICLE_UNAVAILABILITY"
                       \/ r.cancellation_reason_code = "PLANNED_VEHICLE_BREAKDOWN"
                       \/ r.cancellation_reason_code = "TRANSPORT_VENDOR_ISSUE"
            IN  /\ (r.cancel_owner = "N/A") <=> (r.trip_status # "CANCELLED")
                /\ r.trip_status = "CANCELLED" =>
                      /\ vendor_fault => r.cancel_owner = "Vendor Issue"
                      /\ ~vendor_fault => r.cancel_owner = "Zepto Issue"

\* A cancelled trip with the last of the vendor-fault codes has been loaded
\* and blamed on the vendor.
C2_Witness ==
    /\ Loaded
    /\ \E i \in 1..Len(df_raw.rows) :
          LET r == df_raw.rows[i]
          IN  /\ r.trip_status = "CANCELLED"
              /\ "cancellation_reason_code" \in DOMAIN r
              /\ r.cancellation_reason_code = "TRANSPORT_VENDOR_ISSUE"
              /\ r.cancel_owner = "Vendor Issue"

\* The rows of df that belong to a hub.
OfHub(hub) == SelectSeq(df, LAMBDA r : r.source_mh_name = hub)

\* C3: in the hub summary table a hub with no Planned record has
\* Plan_Success_Rate "0.0%"; any other hub has 100 x (Planned and Completed)
\* / Planned of its records, to one decimal, with a trailing %.
C3_PlanSuccessRateZeroWhenNoPlan ==
    TableShown =>
        \A i \in 1..Len(summary_table) :
            LET t       == summary_table[i]
                planned == Len(SelectSeq(OfHub(t.source_mh_name), IsPlanned))
                done    == Len(SelectSeq(OfHub(t.source_mh_name),
                                 LAMBDA r : IsPlanned(r) /\ IsCompleted(r)))
            IN  t.Plan_Success_Rate =
                    IF planned = 0 THEN "0.0%" ELSE FormatPct(Float(done, planned))

\* C4: each of the four scorecard rates is "0.0%" when its denominator is
\* zero: Plan Execution when no record is Planned; Adhoc Rate, Cancel Rate
\* and Vehicle Compliance when the filtered batch is empty.
C4_RatesZeroOnZeroDenominator ==
    pc \in {"kpi", "table", "done"} =>
        /\ Len(SelectSeq(df, IsPlanned)) = 0 => kpi.Plan_Execution = "0.0%"
        /\ Len(df) = 0 =>
              /\ kpi.Adhoc_Rate = "0.0%"
              /\ kpi.Cancel_Rate = "0.0%"
              /\ kpi.Vehicle_Compliance = "0.0%"

\* C5: whenever the script loads its data while the folder holds a file, the
\* frame it gets is the processed content of the file created last.
C5_LatestFileServed ==
    [][(pc = "start" /\ pc' # "start" /\ folder # {}) =>
          \E f \in folder :
             /\ \A g \in folder : g.ctime <= f.ctime
             /\ df_raw' = Frame(Process(f.content))]_vars

\* The rows of a table, as a set.
RowSet(table) == {table[i] : i \in 1..Len(table)}

\* Row i of a table comes before row j in the order: col descending, and the
\* name column ascending among equal col.
RankedBefore(table, i, j, col, name) ==
    \/ table[i][col] > table[j][col]
    \/ /\ table[i][col] = table[j][col]
       /\ Rank(table[i][name]) < Rank(table[j][name])

RECURSIVE SumCol(_, _)
\* Sum of a numeric column of a table.
SumCol(table, col) ==
    IF table = <<>> THEN 0 ELSE Head(table)[col] + SumCol(Tail(table), col)

C9_AdhocOwnersCoverAdhocs ==
    TableShown =>
        \A i \in 1..Len(summary_table) :
            LET t == summary_table[i]
            IN  t.Adhoc_Vendor + t.Adhoc_Zepto =
                    Len(SelectSeq(OfHub(t.source_mh_name), IsAdhoc))

\* A hub row counts an adhoc trip of each owner.
C9_Witness ==
    /\ pc = "table"
    /\ \E i \in 1..Len(summary_table) :
          /\ summary_table[i].Adhoc_Vendor >= 1
          /\ summary_table[i].Adhoc_Zepto >= 1

\* Field-wise sum of two hub counts.
AddHubCounts(a, b) == [k \in DOMAIN a |-> a[k] + b[k]]

\* The hub table obtained by merging the counts of two shards.
MergedSummary(a, b) ==
    LET keys == Sorted(Unique(a, "source_mh_name") \cup Unique(b, "source_mh_name"))
    IN  [i \in 1..Len(keys) |->
            HubRow(keys[i],
                   AddHubCounts(HubCounts(Group(a, "source_mh_name", keys[i])),
                                HubCounts(Group(b, "source_mh_name", keys[i]))))]

\* The vendor table obtained by merging the counts of two shards.
MergedVendorStats(a, b) ==
    LET keys == Sorted(Unique(a, "actual_vendor") \cup Unique(b, "actual_vendor"))
    IN  [i \in 1..Len(keys) |->
            VendorRow(keys[i],
                      AddHubCounts(VendorCounts(Group(a, "actual_vendor", keys[i])),
                                   VendorCounts(Group(b, "actual_vendor", keys[i]))))]

\* C10: for every permutation of the filtered batch and every split of it in
\* two shards, merging the shards' per-hub and per-vendor counts gives the
\* hub table and the vendor table computed on the whole batch.
C10_ShardAndOrderIndependent ==
    pc = "done" =>
        \A p \in Perms(Len(df)) : \A k \in 0..Len(df) :
            LET permuted == [i \in 1..Len(df) |-> df[p[i]]]
                a        == SubSeq(permuted, 1, k)
                b        == SubSeq(permuted, k + 1, Len(df))
            IN  /\ MergedSummary(a, b) = summary_table
                /\ MergedVendorStats(a, b) = vendor_stats

\* Both tables have been built from a batch in which one hub and one vendor
\* have two records, so that a split puts one in each shard.
C10_Witness ==
    /\ pc = "done"
    /\ Len(df) >= 2
    /\ \E i \in 1..Len(summary_table) : summary_table[i].Total >= 2
    /\ \E i \in 1..Len(vendor_stats) : vendor_stats[i].Total_Failures >= 2

====
